---- MODULE Spec2Model ----
(***************************************************************************)
(* A model of runbook_orchestrator.py: the AWSRunbookGenerator object, its  *)
(* collectors, the collection loop, the document aggregation and main().    *)
(*                                                                          *)
(* A Python dict is a sequence of entries [k, t, v] in insertion order; t   *)
(* is the Python type of the value ("str", "int", "list"), which the code   *)
(* tests with isinstance.  self.data is a function whose DOMAIN is the set  *)
(* of keys written so far.  The document is the sequence of the elements    *)
(* appended to it plus the set of its style names.  The program's string    *)
(* literals are written here without their diacritics.                      *)
(***************************************************************************)
EXTENDS Integers, Sequences, FiniteSets, TLC

\* ------------------------------------------------------------ bounds
\* At most this many collectors of one run get a provider response that
\* deviates from the usual one (one record, no failure).
MaxDeviations == 1
\* The cluster listing returns at most this many clusters.
MaxClusters == 2
\* generate_document is invoked again at most this many times on a generator.
MaxRegenerate == 1

\* ------------------------------------------------------------ dicts
None == "None"

StrEntry(k, v) == [k |-> k, t |-> "str", v |-> v]
IntEntry(k, v) == [k |-> k, t |-> "int", v |-> v]
ListEntry(k, v) == [k |-> k, t |-> "list", v |-> v]

\* `key in d`
HasKey(d, key) == \E i \in 1..Len(d) : d[i].k = key

\* d[key]
Get(d, key) == d[CHOOSE i \in 1..Len(d) : d[i].k = key].v

\* self.data[key] = value
SetItem(m, key, value) ==
    [x \in (DOMAIN m) \cup {key} |-> IF x = key THEN value ELSE m[x]]

\* ------------------------------------------------------------ exceptions
\* What a provider call can raise.  A ClientError carries the parsed error
\* response; hasCode says whether response['Error']['Code'] is present.
\* KeyboardInterrupt is a BaseException and not an Exception.
ClientError(code) ==
    [type |-> "ClientError", code |-> code, hasCode |-> TRUE, msg |-> code]

AccessDenied == ClientError("AccessDeniedException")

OrganizationsNotInUse == ClientError("AWSOrganizationsNotInUseException")

MalformedClientError ==
    [type |-> "ClientError", code |-> None, hasCode |-> FALSE, msg |-> "Unknown"]

EndpointConnectionError ==
    [type |-> "Exception", code |-> None, hasCode |-> FALSE,
     msg |-> "Could not connect to the endpoint URL"]

KeyError(key) ==
    [type |-> "Exception", code |-> None, hasCode |-> FALSE, msg |-> key]

\* The exceptions a provider call of the collector may raise, one of each
\* kind the collector's handlers tell apart: collect_organizations looks into
\* a ClientError's response, every other collector has the one handler of
\* Exception.
Faults(method) ==
    IF method = "collect_organizations"
    THEN {AccessDenied, OrganizationsNotInUse, MalformedClientError,
          EndpointConnectionError}
    ELSE {AccessDenied, EndpointConnectionError}

\* str(e)
StrOf(e) == e.msg

NoFault == [type |-> "none", code |-> None, hasCode |-> FALSE, msg |-> None]

\* ------------------------------------------------------------ provider
\* The provider's answer to one collector invocation: the number n of items
\* its listing returns, and the call that raises (at = 0: none) with the
\* exception exc it raises.  Calls are numbered in the order the collector
\* makes them.
Response(n, at, exc) == [n |-> n, at |-> at, exc |-> exc]

\* The usual answer: one item, no failure.
Usual == Response(1, 0, NoFault)

\* create_detailed_table shows at most this many rows.
RowLimit == 10

\* The i-th item of a listing, as the dict the collector builds from it: one
\* entry per field, each holding the item's value for that field (item i).
Record(fields, i) == [j \in 1..Len(fields) |-> StrEntry(fields[j], i)]

Records(fields, n) == [i \in 1..n |-> Record(fields, i)]

\* Mutant of ErrorDict: the error is recorded with a kind beside its message.
ErrorDictTyped(e) ==
    <<StrEntry("error", StrOf(e)),
      StrEntry("kind", IF e.code = "AccessDeniedException"
                       THEN "NotAuthorized" ELSE "Unknown")>>

ErrorDict(e) == <<StrEntry("error", StrOf(e))>>

\* What one collector invocation does: it writes value under key (wrote), or
\* an exception leaves the collector (raised); name is the new account_name.
Wrote(key, value, name) ==
    [wrote |-> TRUE, key |-> key, value |-> value, raised |-> FALSE,
     exc |-> NoFault, account_name |-> name]

Escaped(e, name) ==
    [wrote |-> FALSE, key |-> None, value |-> <<>>, raised |-> TRUE,
     exc |-> e, account_name |-> name]

\* ------------------------------------------------------------ collectors
\* f"AWS-{self.account_id}"
AwsName(account_id) ==
    IF account_id = "111111111111" THEN "AWS-111111111111" ELSE "AWS-None"

\* Calls: 1 sts.get_caller_identity, 2 iam.list_account_aliases; r.n aliases.
collect_account_summary(r, account_id, account_name) ==
    IF r.at = 0
    THEN Wrote("account_summary",
               <<StrEntry("account_id", account_id), StrEntry("user_id", "UserId"),
                 StrEntry("arn", "Arn"),
                 ListEntry("aliases", [i \in 1..r.n |-> "alias"])>>,
               IF r.n > 0 THEN "alias" ELSE AwsName(account_id))
    ELSE Wrote("account_summary", ErrorDict(r.exc), account_name)

\* Call 1: organizations.describe_organization.
collect_organizations(r, account_id, account_name) ==
    IF r.at = 0
    THEN Wrote("organizations",
               <<StrEntry("organization_id", "Id"),
                 StrEntry("master_account_id", "MasterAccountId"),
                 StrEntry("feature_set", "FeatureSet")>>, account_name)
    ELSE IF r.exc.type = "ClientError"
         THEN IF ~r.exc.hasCode
              THEN Escaped(KeyError("Error"), account_name)
              ELSE IF r.exc.code = "AWSOrganizationsNotInUseException"
                   THEN Wrote("organizations",
                              <<StrEntry("status", "Nao esta em uma organizacao")>>,
                              account_name)
                   ELSE Wrote("organizations", ErrorDict(r.exc), account_name)
         ELSE Wrote("organizations", ErrorDict(r.exc), account_name)

\* Call 1: controltower.list_landing_zones; r.n landing zones.
collect_control_tower(r, account_id, account_name) ==
    IF r.at = 0
    THEN Wrote("control_tower",
               <<StrEntry("status", IF r.n > 0 THEN "Ativo" ELSE "Inativo"),
                 IntEntry("landing_zones", r.n)>>, account_name)
    ELSE Wrote("control_tower",
               <<StrEntry("status", "Nao disponivel"), StrEntry("error", StrOf(r.exc))>>,
               account_name)

\* Mutant of collect_vpc_summary: the result is stored under the account
\* summary's key.
collect_vpc_summary_misfiled(r, account_id, account_name) ==
    IF r.at = 0
    THEN Wrote("account_summary",
               <<IntEntry("total_vpcs", r.n), IntEntry("total_subnets", r.n),
                 IntEntry("peering_connections", r.n),
                 ListEntry("vpcs", Records(<<"vpc_id", "cidr_block", "state",
                                        "is_default">>, r.n))>>, account_name)
    ELSE Wrote("account_summary", ErrorDict(r.exc), account_name)

\* Calls: 1 describe_vpcs, 2 describe_subnets, 3 describe_vpc_peering_connections.
collect_vpc_summary(r, account_id, account_name) ==
    IF r.at = 0
    THEN Wrote("vpc_summary",
               <<IntEntry("total_vpcs", r.n), IntEntry("total_subnets", r.n),
                 IntEntry("peering_connections", r.n),
                 ListEntry("vpcs", Records(<<"vpc_id", "cidr_block", "state",
                                        "is_default">>, r.n))>>, account_name)
    ELSE Wrote("vpc_summary", ErrorDict(r.exc), account_name)

\* The shape every single-listing collector has: one call, a total and the
\* list of the records built from the items, or the error.
ListCollector(key, total, listKey, fields, r, account_name) ==
    IF r.at = 0
    THEN Wrote(key, <<IntEntry(total, r.n), ListEntry(listKey, Records(fields, r.n))>>,
               account_name)
    ELSE Wrote(key, ErrorDict(r.exc), account_name)

collect_route53(r, account_id, account_name) ==
    ListCollector("route53", "total_zones", "zones",
                  <<"name", "id", "record_count">>, r, account_name)

collect_ec2_instances(r, account_id, account_name) ==
    ListCollector("ec2_instances", "total_instances", "instances",
                  <<"instance_id", "instance_type", "state", "launch_time",
                    "private_ip", "public_ip">>, r, account_name)

collect_rds(r, account_id, account_name) ==
    ListCollector("rds", "total_instances", "instances",
                  <<"identifier", "engine", "status", "endpoint",
                    "instance_class">>, r, account_name)

collect_api_gateway(r, account_id, account_name) ==
    ListCollector("api_gateway", "total_apis", "apis",
                  <<"id", "name", "created_date">>, r, account_name)

collect_cloudfront(r, account_id, account_name) ==
    ListCollector("cloudfront", "total_distributions", "distributions",
                  <<"id", "domain_name", "status", "enabled">>, r, account_name)

collect_lambda(r, account_id, account_name) ==
    ListCollector("lambda", "total_functions", "functions",
                  <<"name", "runtime", "handler", "last_modified">>, r,
                  account_name)

collect_sns(r, account_id, account_name) ==
    ListCollector("sns", "total_topics", "topics", <<"name", "arn">>, r,
                  account_name)

collect_backup(r, account_id, account_name) ==
    ListCollector("backup", "total_plans", "plans",
                  <<"id", "name", "creation_date">>, r, account_name)

collect_eventbridge(r, account_id, account_name) ==
    ListCollector("eventbridge", "total_rules", "rules",
                  <<"name", "state", "event_pattern">>, r, account_name)

collect_load_balancers(r, account_id, account_name) ==
    ListCollector("load_balancers", "total_load_balancers", "load_balancers",
                  <<"name", "type", "scheme", "state", "dns_name">>, r,
                  account_name)

\* Mutant of collect_ecs: a failed list_services keeps the records gathered
\* so far and adds a warning.
collect_ecs_partial(r, account_id, account_name) ==
    LET gathered == IF r.at = 0 THEN r.n ELSE IF r.at = 1 THEN 0 ELSE r.at - 2
        clusters_data == Records(<<"name", "arn", "services_count">>, gathered)
    IN  IF r.at = 1
        THEN Wrote("ecs", ErrorDict(r.exc), account_name)
        ELSE Wrote("ecs",
                   <<IntEntry("total_clusters", Len(clusters_data)),
                     ListEntry("clusters", clusters_data)>> \o
                   (IF r.at = 0 THEN <<>>
                    ELSE <<StrEntry("warning", StrOf(r.exc))>>), account_name)

\* Calls: 1 ecs.list_clusters (r.n clusters), 1 + j ecs.list_services of
\* cluster j.  clusters_data holds the records appended before the loop ended
\* or a call raised; an exception of any call replaces the whole result.
collect_ecs(r, account_id, account_name) ==
    LET gathered == IF r.at = 0 THEN r.n ELSE IF r.at = 1 THEN 0 ELSE r.at - 2
        clusters_data == Records(<<"name", "arn", "services_count">>, gathered)
    IN  IF r.at = 0
        THEN Wrote("ecs",
                   <<IntEntry("total_clusters", Len(clusters_data)),
                     ListEntry("clusters", clusters_data)>>, account_name)
        ELSE Wrote("ecs", ErrorDict(r.exc), account_name)

\* Call 1: sso-admin.list_instances.
collect_iam_identity_center(r, account_id, account_name) ==
    IF r.at = 0
    THEN Wrote("iam_identity_center",
               <<IntEntry("total_instances", r.n),
                 ListEntry("instances", Records(<<"instance_arn",
                                             "identity_store_id">>, r.n)),
                 StrEntry("status", IF r.n > 0 THEN "Ativo" ELSE "Inativo")>>,
               account_name)
    ELSE Wrote("iam_identity_center",
               <<StrEntry("status", "Nao disponivel"), StrEntry("error", StrOf(r.exc))>>,
               account_name)

\* The registry of collect_all_data, in its order.
collection_methods ==
    <<"collect_account_summary", "collect_organizations",
      "collect_control_tower", "collect_vpc_summary", "collect_route53",
      "collect_ec2_instances", "collect_rds", "collect_api_gateway",
      "collect_cloudfront", "collect_lambda", "collect_sns", "collect_backup",
      "collect_eventbridge", "collect_load_balancers", "collect_ecs",
      "collect_iam_identity_center">>

\* method(): the call of a bound method of the registry.
Invoke(method, r, id, name) ==
    CASE method = "collect_account_summary" -> collect_account_summary(r, id, name)
      [] method = "collect_organizations" -> collect_organizations(r, id, name)
      [] method = "collect_control_tower" -> collect_control_tower(r, id, name)
      [] method = "collect_vpc_summary" -> collect_vpc_summary(r, id, name)
      [] method = "collect_route53" -> collect_route53(r, id, name)
      [] method = "collect_ec2_instances" -> collect_ec2_instances(r, id, name)
      [] method = "collect_rds" -> collect_rds(r, id, name)
      [] method = "collect_api_gateway" -> collect_api_gateway(r, id, name)
      [] method = "collect_cloudfront" -> collect_cloudfront(r, id, name)
      [] method = "collect_lambda" -> collect_lambda(r, id, name)
      [] method = "collect_sns" -> collect_sns(r, id, name)
      [] method = "collect_backup" -> collect_backup(r, id, name)
      [] method = "collect_eventbridge" -> collect_eventbridge(r, id, name)
      [] method = "collect_load_balancers" -> collect_load_balancers(r, id, name)
      [] method = "collect_ecs" -> collect_ecs(r, id, name)
      [] method = "collect_iam_identity_center" ->
             collect_iam_identity_center(r, id, name)

\* ------------------------------------------------------------ document
\* An element appended to the document: a paragraph (its text, a sequence of
\* the parts formatted into it, and its style), a table (its header cells in
\* text, its rows) or a page break.
Paragraph(text, style) ==
    [el |-> "p", text |-> text, style |-> style, rows |-> <<>>]

Table(header, rows) ==
    [el |-> "table", text |-> header, style |-> "Table Grid", rows |-> rows]

PageBreak == [el |-> "break", text |-> <<>>, style |-> None, rows |-> <<>>]

\* key.replace('_', ' ').title()
Titled(key) == <<"title", key>>

\* Document(): the default template's styles and an empty body.
Document == [styles |-> {"Normal", "Table Grid"}, body |-> <<>>]

\* Mutant of setup_document_styles: add_style replaces a style of the same
\* name instead of raising.
setup_document_styles_replacing(doc) ==
    [doc |-> [doc EXCEPT !.styles = @ \cup {"CustomTitle", "CustomHeading"}],
     raised |-> FALSE]

\* styles.add_style raises ValueError when the document already has a style
\* of that name.
setup_document_styles(doc) ==
    IF "CustomTitle" \in doc.styles
    THEN [doc |-> doc, raised |-> TRUE]
    ELSE IF "CustomHeading" \in doc.styles
         THEN [doc |-> [doc EXCEPT !.styles = @ \cup {"CustomTitle"}],
               raised |-> TRUE]
         ELSE [doc |-> [doc EXCEPT !.styles = @ \cup {"CustomTitle",
                                                     "CustomHeading"}],
               raised |-> FALSE]

\* No logo.png in the working directory; the generation time is "now".
add_cover_page(doc, account_name) ==
    [doc EXCEPT !.body = @ \o
        <<Paragraph(<<"AWS RUNBOOK">>, "CustomTitle"),
          Paragraph(<<"Conta: ", account_name>>, None),
          Paragraph(<<"Gerado em: ", "now">>, None),
          PageBreak>>]

toc_sections ==
    <<"1. Resumo da Conta", "2. AWS Organizations", "3. AWS Control Tower",
      "4. Resumo de VPCs", "5. Route 53 (DNS)", "6. Instancias EC2",
      "7. RDS (Banco de Dados)", "8. API Gateway", "9. CloudFront",
      "10. Lambda Functions", "11. SNS (Notificacoes)", "12. AWS Backup",
      "13. EventBridge", "14. Load Balancers", "15. ECS (Containers)",
      "16. IAM Identity Center">>

add_table_of_contents(doc) ==
    [doc EXCEPT !.body = @ \o
        <<Paragraph(<<"SUMARIO">>, "CustomTitle")>> \o
        [i \in 1..Len(toc_sections) |-> Paragraph(<<toc_sections[i]>>, None)] \o
        <<PageBreak>>]

\* item.get(key, 'N/A')
GetOr(d, key, default) == IF HasKey(d, key) THEN Get(d, key) ELSE default

\* Mutant of Take: items[:] for every k (no limit).
TakeAll(items, k) == items

\* items[:k]
Take(items, k) == SubSeq(items, 1, IF Len(items) < k THEN Len(items) ELSE k)

\* The elements create_detailed_table appends for a list of items.
create_detailed_table(data_type, items) ==
    IF Len(items) = 0 THEN <<>>
    ELSE
      LET first == items[1]
          ec2 == data_type = "instances" /\ HasKey(first, "instance_id")
          rds == data_type = "instances" /\ HasKey(first, "identifier")
          headers ==
            IF ec2
            THEN <<"Instance ID", "Type", "State", "Private IP", "Public IP">>
            ELSE IF rds
            THEN <<"Identifier", "Engine", "Status", "Endpoint", "Class">>
            ELSE IF data_type = "zones"
            THEN <<"Name", "ID", "Record Count">>
            ELSE IF data_type = "functions"
            THEN <<"Name", "Runtime", "Handler", "Last Modified">>
            ELSE [j \in 1..Len(first) |-> first[j].k]
          keys ==
            IF ec2
            THEN <<"instance_id", "instance_type", "state", "private_ip",
                   "public_ip">>
            ELSE IF rds
            THEN <<"identifier", "engine", "status", "endpoint",
                   "instance_class">>
            ELSE IF data_type = "zones"
            THEN <<"name", "id", "record_count">>
            ELSE IF data_type = "functions"
            THEN <<"name", "runtime", "handler", "last_modified">>
            ELSE headers
          shown == Take(items, RowLimit)
          rows == [i \in 1..Len(shown) |->
                     [j \in 1..Len(keys) |-> GetOr(shown[i], keys[j], "N/A")]]
          table == Table([j \in 1..Len(headers) |-> Titled(headers[j])], rows)
      IN  IF Len(items) > RowLimit
          THEN <<table,
                 Paragraph(<<"... e mais ", Len(items) - RowLimit, " itens">>,
                           None)>>
          ELSE <<table>>

DetailedKeys ==
    {"instances", "zones", "apis", "distributions", "functions", "topics",
     "plans", "rules", "load_balancers", "clusters"}

\* The elements the loop of create_data_table appends for one entry of a
\* dict that has a list among its values.
EntryElements(e) ==
    IF e.t = "list" /\ Len(e.v) > 0
    THEN IF e.k \in DetailedKeys THEN create_detailed_table(e.k, e.v) ELSE <<>>
    ELSE IF e.t # "list"
         THEN <<Paragraph(<<Titled(e.k), ": ", e.v>>, None)>>
         ELSE <<>>

RECURSIVE Flatten(_)
\* The concatenation of a sequence of sequences.
Flatten(ss) == IF Len(ss) = 0 THEN <<>> ELSE Head(ss) \o Flatten(Tail(ss))

\* The elements create_data_table appends for a result dict.
create_data_table(data) ==
    IF \E i \in 1..Len(data) : data[i].t = "list"
    THEN Flatten([i \in 1..Len(data) |-> EntryElements(data[i])])
    ELSE LET scalars == SelectSeq(data, LAMBDA e : e.t \notin {"list", "dict"})
         IN  <<Table(<<"Propriedade", "Valor">>,
                     [i \in 1..Len(scalars) |->
                        <<Titled(scalars[i].k), scalars[i].v>>])>>

\* The elements add_section appends.
add_section(data, title, description, data_key) ==
    <<Paragraph(<<title>>, "CustomHeading"), Paragraph(<<description>>, None)>> \o
    (IF data_key \in DOMAIN data
     THEN IF HasKey(data[data_key], "error")
          THEN <<Paragraph(<<"Erro: ", Get(data[data_key], "error")>>, None)>>
          ELSE create_data_table(data[data_key])
     ELSE <<Paragraph(<<"Dados nao disponiveis">>, None)>>) \o
    <<Paragraph(<<>>, None)>>

Section(title, description, data_key) ==
    [title |-> title, description |-> description, data_key |-> data_key]

\* Mutant of sections: the EC2 section listed before the Route 53 section.
sections_reordered ==
    <<Section("1. RESUMO DA CONTA", "Informacoes gerais da conta AWS",
              "account_summary"),
      Section("2. AWS ORGANIZATIONS",
              "Status e configuracao do AWS Organizations", "organizations"),
      Section("3. AWS CONTROL TOWER", "Status do AWS Control Tower",
              "control_tower"),
      Section("4. RESUMO DE VPCs", "Redes virtuais privadas e configuracoes",
              "vpc_summary"),
      Section("6. INSTANCIAS EC2", "Servidores virtuais em execucao",
              "ec2_instances"),
      Section("5. ROUTE 53 (DNS)", "Dominios e zonas DNS configuradas",
              "route53"),
      Section("7. RDS (BANCO DE DADOS)", "Instancias de banco de dados", "rds"),
      Section("8. API GATEWAY", "APIs registradas e configuradas",
              "api_gateway"),
      Section("9. CLOUDFRONT", "Distribuicoes CDN ativas", "cloudfront"),
      Section("10. LAMBDA FUNCTIONS", "Funcoes serverless configuradas",
              "lambda"),
      Section("11. SNS (NOTIFICACOES)", "Topicos de notificacao", "sns"),
      Section("12. AWS BACKUP", "Planos e politicas de backup", "backup"),
      Section("13. EVENTBRIDGE", "Regras de eventos configuradas",
              "eventbridge"),
      Section("14. LOAD BALANCERS", "Balanceadores de carga", "load_balancers"),
      Section("15. ECS (CONTAINERS)", "Clusters e servicos de containers",
              "ecs"),
      Section("16. IAM IDENTITY CENTER", "Centro de identidade e SSO",
              "iam_identity_center")>>

\* The sections list of generate_document, in its order.
sections ==
    <<Section("1. RESUMO DA CONTA", "Informacoes gerais da conta AWS",
              "account_summary"),
      Section("2. AWS ORGANIZATIONS",
              "Status e configuracao do AWS Organizations", "organizations"),
      Section("3. AWS CONTROL TOWER", "Status do AWS Control Tower",
              "control_tower"),
      Section("4. RESUMO DE VPCs", "Redes virtuais privadas e configuracoes",
              "vpc_summary"),
      Section("5. ROUTE 53 (DNS)", "Dominios e zonas DNS configuradas",
              "route53"),
      Section("6. INSTANCIAS EC2", "Servidores virtuais em execucao",
              "ec2_instances"),
      Section("7. RDS (BANCO DE DADOS)", "Instancias de banco de dados", "rds"),
      Section("8. API GATEWAY", "APIs registradas e configuradas",
              "api_gateway"),
      Section("9. CLOUDFRONT", "Distribuicoes CDN ativas", "cloudfront"),
      Section("10. LAMBDA FUNCTIONS", "Funcoes serverless configuradas",
              "lambda"),
      Section("11. SNS (NOTIFICACOES)", "Topicos de notificacao", "sns"),
      Section("12. AWS BACKUP", "Planos e politicas de backup", "backup"),
      Section("13. EVENTBRIDGE", "Regras de eventos configuradas",
              "eventbridge"),
      Section("14. LOAD BALANCERS", "Balanceadores de carga", "load_balancers"),
      Section("15. ECS (CONTAINERS)", "Clusters e servicos de containers",
              "ecs"),
      Section("16. IAM IDENTITY CENTER", "Centro de identidade e SSO",
              "iam_identity_center")>>

\* generate_document up to the save: the styles, the cover, the contents and
\* one add_section per entry of sections, in order.  raised: the ValueError
\* of setup_document_styles left the method before anything was appended.
generate_document(doc, data, account_name) ==
    LET styled == setup_document_styles(doc)
        front == add_table_of_contents(add_cover_page(styled.doc, account_name))
    IN  IF styled.raised
        THEN [doc |-> styled.doc, raised |-> TRUE]
        ELSE [doc |-> [front EXCEPT !.body = @ \o
                        Flatten([i \in 1..Len(sections) |->
                                   add_section(data, sections[i].title,
                                               sections[i].description,
                                               sections[i].data_key)])],
              raised |-> FALSE]

\* ------------------------------------------------------------ state
VARIABLES
    pc,            \* where main() is: "main", "collect", "generate",
                   \* "returned" (run is over), "exited"
    session,       \* self.session
    account_id,    \* self.account_id
    account_name,  \* self.account_name
    data,          \* self.data
    doc,           \* self.doc
    idx,           \* position of the loop of collect_all_data in the registry
    hung,          \* the provider call in progress never returns
    runResult,     \* how run() ended: "True", "False", or the exception
    exitStatus,    \* the status the process exits with
    saved,         \* the files doc.save has written
    policy,        \* the provider's permissions for the resolved identity
    deviations,    \* collectors answered otherwise than Usual so far
    called,        \* history: the collectors invoked, in order
    responses,     \* history: the provider's answer to each invocation
    effects,       \* history: what each invocation did
    warnings,      \* history: the collectors logged at the loop's except
    sessionCalls,  \* history: boto3.Session() calls
    stsCalls,      \* history: sts.get_caller_identity calls
    reports,       \* history: what each generate_document call left
    setupResult,   \* history: what setup_aws_session returned
    interrupted    \* history: a KeyboardInterrupt was raised

vars == <<pc, session, account_id, account_name, data, doc, idx, hung,
          runResult, exitStatus, saved, policy, deviations, called, effects,
          warnings, sessionCalls, stsCalls, reports, responses, setupResult,
          interrupted>>

\* The number of provider calls the collector makes when none raises.
NumCalls(method, n) ==
    CASE method = "collect_account_summary" -> 2
      [] method = "collect_vpc_summary" -> 3
      [] method = "collect_ecs" -> 1 + n
      [] OTHER -> 1

\* The numbers of items the collector's listing may return.
Counts(method) ==
    CASE method = "collect_account_summary" -> {0, 1}
      [] method = "collect_organizations" -> {1}
      [] method = "collect_control_tower" -> {0, 1}
      [] method = "collect_ecs" -> 0..MaxClusters
      [] OTHER -> {0, 1, RowLimit + 1}

\* Every answer the provider can give to one invocation of the collector.
Responses(method) ==
    {Response(n, 0, NoFault) : n \in Counts(method)} \cup
    UNION {{Response(IF method = "collect_ecs" THEN n ELSE 1, at, e) :
               at \in 1..NumCalls(method, n), e \in Faults(method)} :
           n \in Counts(method)}

\* With no permission at all every call but sts.get_caller_identity is denied.
Denied(method) ==
    Response(1, IF method = "collect_account_summary" THEN 2 ELSE 1, AccessDenied)

Init ==
    /\ pc = "main"
    /\ session = None
    /\ account_id = None
    /\ account_name = None
    /\ data = <<>>
    /\ doc = Document
    /\ idx = 1
    /\ hung = FALSE
    /\ runResult = None
    /\ exitStatus = 0
    /\ saved = <<>>
    /\ policy \in {"permitted", "denied"}
    /\ deviations = 0
    /\ called = <<>>
    /\ effects = <<>>
    /\ warnings = <<>>
    /\ sessionCalls = 0
    /\ stsCalls = 0
    /\ reports = <<>>
    /\ responses = <<>>
    /\ setupResult = None
    /\ interrupted = FALSE

\* Mutant of SetupAwsSession: run() ignores what setup_aws_session returns.
SetupAwsSessionIgnored ==
    /\ pc = "main"
    /\ \E ok \in BOOLEAN :
          /\ sessionCalls' = sessionCalls + 1
          /\ stsCalls' = stsCalls + 1
          /\ session' = "Session"
          /\ account_id' = IF ok THEN "111111111111" ELSE account_id
          /\ setupResult' = IF ok THEN "True" ELSE "False"
          /\ pc' = "collect"
          /\ runResult' = runResult
    /\ UNCHANGED <<account_name, data, doc, idx, hung, exitStatus, saved,
                   policy, deviations, called, effects, warnings, reports,
                   responses, interrupted>>

\* run() calls setup_aws_session: boto3.Session(), then get_caller_identity.
\* Any exception makes it return False, and run() returns False.
SetupAwsSession ==
    /\ pc = "main"
    /\ \E ok \in BOOLEAN :
          /\ sessionCalls' = sessionCalls + 1
          /\ stsCalls' = stsCalls + 1
          /\ session' = "Session"
          /\ IF ok
             THEN /\ account_id' = "111111111111"
                  /\ setupResult' = "True"
                  /\ pc' = "collect"
                  /\ runResult' = runResult
             ELSE /\ account_id' = account_id
                  /\ setupResult' = "False"
                  /\ pc' = "returned"
                  /\ runResult' = "False"
    /\ UNCHANGED <<account_name, data, doc, idx, hung, exitStatus, saved,
                   policy, deviations, called, effects, warnings, reports,
                   responses, interrupted>>

\* Mutant of CollectStep: every collector looks the caller identity up again.
CollectStepResolvingAgain(r) ==
    LET method == collection_methods[idx]
        eff == Invoke(method, r, account_id, account_name)
    IN  /\ called' = Append(called, method)
        /\ responses' = Append(responses, r)
        /\ effects' = Append(effects, eff)
        /\ stsCalls' = stsCalls + 1
        /\ data' = IF eff.wrote THEN SetItem(data, eff.key, eff.value) ELSE data
        /\ account_name' = eff.account_name
        /\ warnings' = IF eff.raised THEN Append(warnings, method) ELSE warnings
        /\ idx' = idx + 1
        /\ pc' = IF idx = Len(collection_methods) THEN "generate" ELSE "collect"

\* Mutant of CollectStep: an iteration whose collector recorded an error or
\* raised is run again.
CollectStepRetrying(r) ==
    LET method == collection_methods[idx]
        eff == Invoke(method, r, account_id, account_name)
        again == eff.raised \/ HasKey(eff.value, "error")
    IN  /\ called' = Append(called, method)
        /\ responses' = Append(responses, r)
        /\ effects' = Append(effects, eff)
        /\ stsCalls' = IF method = "collect_account_summary"
                       THEN stsCalls + 1 ELSE stsCalls
        /\ data' = IF eff.wrote THEN SetItem(data, eff.key, eff.value) ELSE data
        /\ account_name' = eff.account_name
        /\ warnings' = IF eff.raised THEN Append(warnings, method) ELSE warnings
        /\ idx' = IF again THEN idx ELSE idx + 1
        /\ pc' = IF idx = Len(collection_methods) /\ ~again
                 THEN "generate" ELSE "collect"

\* One iteration of the loop of collect_all_data: method() under try/except
\* Exception, which logs a warning and goes on.
CollectStep(r) ==
    LET method == collection_methods[idx]
        eff == Invoke(method, r, account_id, account_name)
    IN  /\ called' = Append(called, method)
        /\ responses' = Append(responses, r)
        /\ effects' = Append(effects, eff)
        /\ stsCalls' = IF method = "collect_account_summary"
                       THEN stsCalls + 1 ELSE stsCalls
        /\ data' = IF eff.wrote THEN SetItem(data, eff.key, eff.value) ELSE data
        /\ account_name' = eff.account_name
        /\ warnings' = IF eff.raised THEN Append(warnings, method) ELSE warnings
        /\ idx' = idx + 1
        /\ pc' = IF idx = Len(collection_methods) THEN "generate" ELSE "collect"

\* Mutant of Collect: the loop goes on although the call in progress hangs.
CollectAfterTimeout ==
    /\ pc = "collect"
    /\ \E r \in Responses(collection_methods[idx]) :
          /\ IF policy = "denied"
             THEN r = Denied(collection_methods[idx]) /\ deviations' = deviations
             ELSE \/ r = Usual /\ deviations' = deviations
                  \/ /\ r # Usual
                     /\ deviations < MaxDeviations
                     /\ deviations' = deviations + 1
          /\ CollectStep(r)
    /\ UNCHANGED <<session, account_id, doc, hung, runResult, exitStatus, saved,
                   policy, sessionCalls, reports, setupResult, interrupted>>

Collect ==
    /\ pc = "collect"
    /\ ~hung
    /\ \E r \in Responses(collection_methods[idx]) :
          /\ IF policy = "denied"
             THEN r = Denied(collection_methods[idx]) /\ deviations' = deviations
             ELSE \/ r = Usual /\ deviations' = deviations
                  \/ /\ r # Usual
                     /\ deviations < MaxDeviations
                     /\ deviations' = deviations + 1
          /\ CollectStep(r)
    /\ UNCHANGED <<session, account_id, doc, hung, runResult, exitStatus, saved,
                   policy, sessionCalls, reports, setupResult, interrupted>>

\* A provider call of the collector at idx never returns: there is no
\* timeout, so the loop stays inside method().
Hang ==
    /\ pc = "collect"
    /\ ~hung
    /\ hung' = TRUE
    /\ called' = Append(called, collection_methods[idx])
    /\ UNCHANGED <<pc, session, account_id, account_name, data, doc, idx,
                   runResult, exitStatus, saved, policy, deviations, effects,
                   warnings, sessionCalls, stsCalls, reports, responses,
                   setupResult, interrupted>>

\* Mutant of Interrupt: the loop's except swallows the KeyboardInterrupt too.
InterruptSwallowed ==
    /\ pc \in {"collect", "generate"}
    /\ ~interrupted
    /\ hung' = FALSE
    /\ interrupted' = TRUE
    /\ UNCHANGED <<pc, runResult, session, account_id, account_name, data, doc,
                   idx, exitStatus, saved, policy, deviations, called, effects,
                   warnings, sessionCalls, stsCalls, reports, responses,
                   setupResult>>

\* KeyboardInterrupt during the collection or before the generation: it is
\* no Exception, so it passes the loop's except and leaves run().
Interrupt ==
    /\ pc \in {"collect", "generate"}
    /\ pc' = "returned"
    /\ runResult' = "KeyboardInterrupt"
    /\ hung' = FALSE
    /\ interrupted' = TRUE
    /\ UNCHANGED <<session, account_id, account_name, data, doc, idx,
                   exitStatus, saved, policy, deviations, called, effects,
                   warnings, sessionCalls, stsCalls, reports, responses,
                   setupResult>>

\* run() calls generate_document and returns True; an exception of doc.save
\* leaves run().
GenerateDocument ==
    /\ pc = "generate"
    /\ LET out == generate_document(doc, data, account_name)
       IN  /\ doc' = out.doc
           /\ reports' = Append(reports, [raised |-> out.raised,
                                          body |-> out.doc.body])
           /\ \E saveOk \in BOOLEAN :
                 IF ~out.raised /\ saveOk
                 THEN /\ saved' = Append(saved, <<"runbook_", account_id>>)
                      /\ runResult' = "True"
                 ELSE /\ saved' = saved
                      /\ runResult' = "Exception"
    /\ pc' = "returned"
    /\ UNCHANGED <<session, account_id, account_name, data, idx, hung,
                   exitStatus, policy, deviations, called, effects, warnings,
                   sessionCalls, stsCalls, responses, setupResult, interrupted>>

\* generate_document invoked again on the generator whose run() returned True.
Regenerate ==
    /\ pc = "returned"
    /\ runResult = "True"
    /\ Len(reports) <= MaxRegenerate
    /\ LET out == generate_document(doc, data, account_name)
       IN  /\ doc' = out.doc
           /\ reports' = Append(reports, [raised |-> out.raised,
                                          body |-> out.doc.body])
           /\ saved' = IF out.raised THEN saved
                       ELSE Append(saved, <<"runbook_", account_id>>)
    /\ UNCHANGED <<pc, session, account_id, account_name, data, idx, hung,
                   runResult, exitStatus, policy, deviations, called, effects,
                   warnings, sessionCalls, stsCalls, responses, setupResult,
                   interrupted>>

\* Mutant of MainExit: main() without its sys.exit(1).
MainExitZero ==
    /\ pc = "returned"
    /\ pc' = "exited"
    /\ exitStatus' = 0
    /\ UNCHANGED <<session, account_id, account_name, data, doc, idx, hung,
                   runResult, saved, policy, deviations, called, effects,
                   warnings, sessionCalls, stsCalls, reports, responses,
                   setupResult, interrupted>>

\* main() after run(): status 0 when run() returned True, sys.exit(1) when it
\* returned False or was left by KeyboardInterrupt or an Exception.
MainExit ==
    /\ pc = "returned"
    /\ pc' = "exited"
    /\ exitStatus' = IF runResult = "True" THEN 0 ELSE 1
    /\ UNCHANGED <<session, account_id, account_name, data, doc, idx, hung,
                   runResult, saved, policy, deviations, called, effects,
                   warnings, sessionCalls, stsCalls, reports, responses,
                   setupResult, interrupted>>

Next ==
    \/ SetupAwsSession
    \/ Collect
    \/ Hang
    \/ Interrupt
    \/ GenerateDocument
    \/ Regenerate
    \/ MainExit

Spec == Init /\ [][Next]_vars

\* The steps the program takes by itself; Hang and Interrupt are events of its
\* environment.
ProgramStep ==
    SetupAwsSession \/ Collect \/ GenerateDocument \/ Regenerate \/ MainExit

\* ------------------------------------------------------------ claims
\* The positions of the section headings in a document body.
HeadingPositions(body) ==
    {k \in 1..Len(body) : body[k].style = "CustomHeading"}

\* The position of the i-th section heading.
SectionStart(body, i) ==
    CHOOSE k \in HeadingPositions(body) :
        Cardinality({j \in HeadingPositions(body) : j < k}) = i - 1

\* The elements of the i-th section: from its heading to the next heading.
SectionElements(body, i) ==
    SubSeq(body, SectionStart(body, i),
           IF i < Cardinality(HeadingPositions(body))
           THEN SectionStart(body, i + 1) - 1 ELSE Len(body))

\* The slot of the i-th collector: the key its report section reads.
Slot(i) == sections[i].data_key

\* The i-th invocation had a provider call raise, other than the
\* organizations-not-in-use answer that collect_organizations reports as a
\* status.
Failed(i) ==
    /\ responses[i].at > 0
    /\ ~(called[i] = "collect_organizations"
         /\ responses[i].exc = OrganizationsNotInUse)

\* The i-th collector's slot holds the error of its failed call.
SlotHoldsError(i) ==
    /\ Slot(i) \in DOMAIN data
    /\ HasKey(data[Slot(i)], "error")
    /\ Get(data[Slot(i)], "error") = StrOf(responses[i].exc)

\* The i-th invocation wrote a result without an error.
Succeeded(i) == effects[i].wrote /\ ~HasKey(effects[i].value, "error")

\* The section shows the message as its inline error paragraph.
ShowsError(elements, message) ==
    \E k \in 1..Len(elements) :
        /\ elements[k].el = "p"
        /\ Len(elements[k].text) = 2
        /\ elements[k].text[1] = "Erro: "
        /\ elements[k].text[2] = message

\* C1: every collector whose provider call raised has an error result in its
\* own slot of data, and when the loop of collect_all_data is over every
\* collector of the registry has been invoked.
C1_FailedCollectorFillsItsSlot ==
    /\ \A i \in 1..Len(responses) : Failed(i) => SlotHoldsError(i)
    /\ pc = "generate" => called = collection_methods

\* C2: every report generate_document builds has one section per registered
\* collector, 16 of them, and its i-th section is that of the i-th collector
\* of the registry: it has the i-th title and reads the key the i-th invoked
\* collector wrote, whose value is what that collector wrote, whatever the
\* collectors' outcomes.
C2_SectionsFollowRegistry ==
    \A k \in 1..Len(reports) :
        ~reports[k].raised =>
            /\ Cardinality(HeadingPositions(reports[k].body)) = 16
            /\ Len(collection_methods) = 16
            /\ called = collection_methods
            /\ \A i \in 1..16 :
                  /\ SectionElements(reports[k].body, i)[1].text =
                         <<sections[i].title>>
                  /\ effects[i].wrote =>
                         /\ effects[i].key = sections[i].data_key
                         /\ data[sections[i].data_key] = effects[i].value

\* Witness of C2: a report was generated after one collector failed and
\* another succeeded.
C2_Witness ==
    /\ Len(reports) = 1
    /\ ~reports[1].raised
    /\ \E i, j \in 1..Len(responses) : Failed(i) /\ Succeeded(j)

\* C3: every generated report has all 16 sections and shows, in the section
\* of every collector whose provider call raised, that error's message
\* inline.
C3_EveryFailureShownInline ==
    \A k \in 1..Len(reports) :
        ~reports[k].raised =>
            /\ Cardinality(HeadingPositions(reports[k].body)) = 16
            /\ \A i \in 1..Len(responses) :
                  Failed(i) =>
                      ShowsError(SectionElements(reports[k].body, i),
                                 StrOf(responses[i].exc))

\* Some paragraph of the section is an inline error.
ShowsAnyError(elements) ==
    \E k \in 1..Len(elements) :
        /\ elements[k].el = "p"
        /\ Len(elements[k].text) = 2
        /\ elements[k].text[1] = "Erro: "

\* C4 (as claimed): when setup_aws_session returned False the run still
\* produces a report, each of whose 16 sections records the failure.
C4_AuthFailureStillReports ==
    (setupResult = "False" /\ pc = "exited") =>
        /\ Len(reports) >= 1
        /\ Len(saved) >= 1
        /\ \A i \in 1..16 : ShowsAnyError(SectionElements(reports[1].body, i))

\* C4 (amended): when setup_aws_session returned False, run() returns False
\* at once: no collector is invoked, nothing is collected, no report is
\* built or saved, and the process exits with status 1.
C4_AuthFailureEndsRunWithoutReport ==
    setupResult = "False" =>
        /\ runResult = "False"
        /\ called = <<>>
        /\ data = <<>>
        /\ reports = <<>>
        /\ saved = <<>>
        /\ doc = Document
        /\ pc = "exited" => exitStatus = 1

\* Witness of C4: the process has exited after a failed session setup.
C4_Witness == setupResult = "False" /\ pc = "exited"

\* C5 (as claimed): the session is created at most once, the caller identity
\* is looked up at most once, and the collectors run on that session.
C5_CredentialsResolvedOnce ==
    /\ sessionCalls <= 1
    /\ stsCalls <= 1
    /\ Len(called) > 0 => session = "Session"

\* C5 (amended): the session is created at most once and every collector
\* runs on it; the caller identity is looked up at most twice, once by
\* setup_aws_session and once more by collect_account_summary.
C5_OneSessionTwoIdentityLookups ==
    /\ sessionCalls <= 1
    /\ stsCalls <= 2
    /\ stsCalls = 2 => (Len(called) > 0 /\ called[1] = "collect_account_summary")
    /\ Len(called) > 0 => (session = "Session" /\ sessionCalls = 1)

\* Witness of C5: a whole run made the second identity lookup.
C5_Witness == stsCalls = 2 /\ pc = "exited" /\ runResult = "True"

\* C6 (as claimed): a run that was not cut short exits with status 0 exactly
\* when at least one collector succeeded.
C6_ExitStatusCountsSuccesses ==
    (pc = "exited" /\ runResult \in {"True", "False"}) =>
        (exitStatus = 0 <=> \E i \in 1..Len(effects) : Succeeded(i))

\* C6 (amended): the process exits with status 0 exactly when run() returned
\* True, that is when the session was set up, the loop invoked every
\* collector and the document was generated and saved, however many
\* collectors failed; otherwise it exits with status 1.
C6_ExitStatusFollowsRun ==
    pc = "exited" =>
        /\ exitStatus \in {0, 1}
        /\ exitStatus = 0 <=>
              /\ setupResult = "True"
              /\ ~interrupted
              /\ called = collection_methods
              /\ Len(reports) >= 1
              /\ ~reports[1].raised
              /\ Len(saved) >= 1

\* Witness of C6: status 0 although every one of the 16 collectors failed.
C6_Witness ==
    /\ pc = "exited"
    /\ exitStatus = 0
    /\ Len(effects) = 16
    /\ \A i \in 1..16 : Failed(i) /\ ~Succeeded(i)

\* C7 (as claimed): a provider call that hangs does not block the run: while
\* it hangs the program can still take a step (mark the call timed out, go
\* on with the next collector, return).
C7_StuckCallDoesNotBlockRun == hung => ENABLED ProgramStep

\* C7 (amended): there is no timeout.  During the collection the program
\* can take its next step exactly when no provider call hangs; while a call
\* hangs the run stays inside that collector, invoking no other collector and
\* not returning, until the process is interrupted.
C7_OnlyAHungCallBlocksRun ==
    /\ [](pc = "collect" => (ENABLED ProgramStep <=> ~hung))
    /\ [](hung => pc = "collect" /\ Len(called) = idx /\ runResult = None)
    /\ [][hung => \/ interrupted'
                  \/ hung' /\ UNCHANGED <<pc, idx, called, data, runResult>>]_vars

\* Witness of C7: a call hangs while collectors are still to be invoked.
C7_Witness == hung /\ pc = "collect" /\ idx < Len(collection_methods)

\* C8 (as claimed): a second generate_document on the same results does not
\* fail and leaves the same report as the first.
C8_GenerateTwiceSameReport ==
    Len(reports) >= 2 =>
        /\ ~reports[2].raised
        /\ reports[2].body = reports[1].body

\* C8 (amended): only the first generate_document of a generator builds the
\* report; every later call raises in setup_document_styles, the styles being
\* there already, before it appends or saves anything, so the document stays
\* the first report.
C8_LaterGenerateRaisesKeepsReport ==
    \A k \in 2..Len(reports) :
        /\ ~reports[1].raised
        /\ reports[k].raised
        /\ reports[k].body = reports[1].body
        /\ doc.body = reports[1].body
        /\ Len(saved) = 1

\* Witness of C8: generate_document was invoked a second time.
C8_Witness == Len(reports) = 2

\* C9 (as claimed): after an interrupt the run still hands out a report of
\* what was collected before it.
C9_InterruptReturnsCompleted ==
    (interrupted /\ pc = "exited") => (Len(reports) >= 1 /\ Len(saved) >= 1)

\* C9 (amended): an interrupt stops the collection, no collector is invoked
\* after it, and the results collected before it are given up: no report is
\* built or saved and the process exits with status 1.
C9_InterruptDiscardsResults ==
    /\ [](interrupted =>
            /\ reports = <<>>
            /\ saved = <<>>
            /\ doc = Document
            /\ pc \in {"returned", "exited"}
            /\ pc = "exited" => exitStatus = 1)
    /\ [][interrupted => (called' = called /\ data' = data)]_vars

\* Witness of C9: the process exited on an interrupt that came after a
\* collector had succeeded and before the last one was invoked.
C9_Witness ==
    /\ interrupted
    /\ pc = "exited"
    /\ Len(effects) < Len(collection_methods)
    /\ \E i \in 1..Len(effects) : Succeeded(i)

\* C10 (as claimed): when list_services fails after k clusters were
\* gathered, the ecs result holds those k records and a warning.
C10_EcsKeepsGatheredClusters ==
    \A i \in 1..Len(responses) :
        (called[i] = "collect_ecs" /\ responses[i].at >= 2) =>
            /\ "ecs" \in DOMAIN data
            /\ HasKey(data["ecs"], "clusters")
            /\ Len(Get(data["ecs"], "clusters")) = responses[i].at - 2
            /\ HasKey(data["ecs"], "warning")

\* C10 (amended): when list_services fails, whatever the number of clusters
\* gathered before, the ecs result is the bare error: it has no record and
\* no total.
C10_EcsFailureIsBareError ==
    \A i \in 1..Len(responses) :
        (called[i] = "collect_ecs" /\ responses[i].at >= 2) =>
            /\ "ecs" \in DOMAIN data
            /\ data["ecs"] = ErrorDict(responses[i].exc)
            /\ ~HasKey(data["ecs"], "clusters")

\* Witness of C10: list_services failed for the second cluster, after one
\* record was gathered.
C10_Witness ==
    \E i \in 1..Len(responses) :
        called[i] = "collect_ecs" /\ responses[i].at >= 3

\* C11: the collectors are invoked in the order of the registry, each one
\* once: the invocations so far are always the first ones of the registry,
\* with no collector invoked twice and none passed over, whatever the earlier
\* ones did; when the loop of collect_all_data is over they are the whole
\* registry; and a collector is invoked only when every earlier invocation
\* is over (its outcome is there), being the next one of the registry.
C11_InvocationsFollowRegistry ==
    /\ [](/\ Len(called) <= Len(collection_methods)
          /\ \A i \in 1..Len(called) : called[i] = collection_methods[i]
          /\ \A i, j \in 1..Len(called) : called[i] = called[j] => i = j
          /\ Len(effects) = Len(responses)
          /\ Len(responses) <= Len(called)
          /\ Len(called) <= Len(responses) + 1
          /\ idx = Len(responses) + 1
          /\ pc = "generate" => called = collection_methods
          /\ Len(reports) > 0 => called = collection_methods)
    /\ [][called' # called =>
            /\ Len(responses) = Len(called)
            /\ called' = Append(called, collection_methods[Len(called) + 1])]_vars

\* Witness of C11: the loop is over after a collector raised out of its own
\* handler, and the collectors after it were invoked and succeeded.
C11_Witness ==
    /\ pc = "generate"
    /\ Len(responses) = Len(collection_methods)
    /\ \E i \in 1..Len(responses) :
          /\ Failed(i)
          /\ effects[i].raised
          /\ \A j \in (i + 1)..Len(responses) : Succeeded(j)

\* The kinds of failure the specification names.
ErrKinds ==
    {"AuthFailure", "NotAuthorized", "ServiceUnavailable", "NotFoundOrDisabled",
     "Unknown"}

\* The i-th invocation's failure was caught by the collector's own handler,
\* which recorded a result.
CaughtByCollector(i) == Failed(i) /\ effects[i].wrote

\* The keys of a dict.
Keys(d) == {d[j].k : j \in 1..Len(d)}

\* C12 (as claimed): every failure a collector's handler caught is recorded
\* with a kind out of the five kinds, and a permission-denied failure of the
\* instances collector is recorded with the kind NotAuthorized.
C12_FailureRecordedWithKind ==
    \A i \in 1..Len(responses) :
        CaughtByCollector(i) =>
            /\ HasKey(effects[i].value, "kind")
            /\ Get(effects[i].value, "kind") \in ErrKinds
            /\ (called[i] = "collect_ec2_instances"
                /\ responses[i].exc = AccessDenied) =>
                   Get(effects[i].value, "kind") = "NotAuthorized"

\* C12 (amended): a failure is recorded by its message alone.  Every failure
\* a collector's handler caught leaves under the collector's key a dict whose
\* 'error' entry is str(e), with no kind and no other entry but the fixed
\* 'status' text of two collectors, and its section of every report is the
\* heading, the description, the paragraph "Erro: " + str(e) and the blank
\* paragraph.  The failure that collect_organizations' handler raises out of
\* the collector is recorded nowhere.
C12_FailureRecordedAsMessageOnly ==
    /\ \A i \in 1..Len(responses) :
          Failed(i) =>
              IF effects[i].raised
              THEN /\ called[i] = "collect_organizations"
                   /\ responses[i].exc = MalformedClientError
                   /\ Slot(i) \notin DOMAIN data
              ELSE /\ effects[i].key = Slot(i)
                   /\ data[Slot(i)] = effects[i].value
                   /\ HasKey(effects[i].value, "error")
                   /\ Get(effects[i].value, "error") = StrOf(responses[i].exc)
                   /\ Keys(effects[i].value) \subseteq {"error", "status"}
                   /\ \A j \in 1..Len(effects[i].value) :
                         effects[i].value[j].t = "str"
                   /\ HasKey(effects[i].value, "status") =>
                         Get(effects[i].value, "status") = "Nao disponivel"
    /\ \A k \in 1..Len(reports) :
          ~reports[k].raised =>
              \A i \in 1..Len(responses) :
                  CaughtByCollector(i) =>
                      SectionElements(reports[k].body, i) =
                          <<Paragraph(<<sections[i].title>>, "CustomHeading"),
                            Paragraph(<<sections[i].description>>, None),
                            Paragraph(<<"Erro: ", StrOf(responses[i].exc)>>, None),
                            Paragraph(<<>>, None)>>

\* Witness of C12: a report was generated after the instances collector was
\* denied permission.
C12_Witness ==
    /\ Len(reports) >= 1
    /\ ~reports[1].raised
    /\ \E i \in 1..Len(responses) :
          /\ called[i] = "collect_ec2_instances"
          /\ responses[i].exc = AccessDenied
          /\ CaughtByCollector(i)

\* C13: when describe_organization fails with the organizations-not-in-use
\* code, the organizations result is the status entry alone, with no error,
\* and its section of every report renders it as data (the table of
\* properties, no error paragraph); every other failure of that call is
\* recorded as an error under the collector's key.
C13_NotInUseIsStatusOthersAreErrors ==
    \A i \in 1..Len(responses) :
        (called[i] = "collect_organizations" /\ responses[i].at > 0) =>
            IF responses[i].exc = OrganizationsNotInUse
            THEN /\ "organizations" \in DOMAIN data
                 /\ data["organizations"] =
                        <<StrEntry("status", "Nao esta em uma organizacao")>>
                 /\ ~HasKey(data["organizations"], "error")
                 /\ \A k \in 1..Len(reports) :
                       ~reports[k].raised =>
                           /\ ~ShowsAnyError(SectionElements(reports[k].body, i))
                           /\ SectionElements(reports[k].body, i)[3] =
                                  Table(<<"Propriedade", "Valor">>,
                                        <<<<Titled("status"),
                                            "Nao esta em uma organizacao">>>>)
            ELSE SlotHoldsError(i)

\* C14: an exception that leaves a collector is caught by the loop of
\* collect_all_data and recorded as a failed result of that collector (an
\* error under the collector's key, whatever its kind); the loop goes on to
\* invoke every later collector, and the report is generated with that
\* collector's section showing an error.
C14_EscapeRecordedAtLoop ==
    \A i \in 1..Len(effects) :
        effects[i].raised =>
            /\ Slot(i) \in DOMAIN data
            /\ HasKey(data[Slot(i)], "error")
            /\ pc = "generate" => called = collection_methods
            /\ \A k \in 1..Len(reports) :
                  ~reports[k].raised =>
                      ShowsAnyError(SectionElements(reports[k].body, i))

\* The tables among the elements of a section.
TablesOf(elements) == SelectSeq(elements, LAMBDA x : x.el = "table")

\* The list-valued entries of a result.
ListsOf(value) == SelectSeq(value, LAMBDA e : e.t = "list")

\* The table row shows the record: it has cells, and every cell holds the
\* value of a field of the record.
RowShows(row, record) ==
    /\ Len(row) > 0
    /\ \A c \in 1..Len(row) : \E f \in 1..Len(record) : record[f].v = row[c]

\* C15 (as claimed): in every report, for every collector that returned a
\* result and every list of records in the result (every list but the alias
\* names, which are strings), the collector's section has a table whose rows
\* are exactly the records of the list, one row per record in the list's
\* order, whatever the length of the list.
C15_SectionShowsEveryRecord ==
    \A r \in 1..Len(reports) :
        ~reports[r].raised =>
            \A i \in 1..Len(effects) :
                Succeeded(i) =>
                    LET tables == TablesOf(SectionElements(reports[r].body, i))
                        lists == ListsOf(effects[i].value)
                    IN  \A m \in 1..Len(lists) :
                            (lists[m].k # "aliases" /\ Len(lists[m].v) > 0) =>
                                /\ Len(tables) = 1
                                /\ Len(tables[1].rows) = Len(lists[m].v)
                                /\ \A k \in 1..Len(lists[m].v) :
                                      RowShows(tables[1].rows[k], lists[m].v[k])

\* C15 (amended): in every report, for every collector that returned a
\* result and every list of the result: when the list is not empty and its
\* key is one create_data_table renders, the section has one table whose rows
\* are the first min(n, 10) records of the list, one row per record in the
\* list's order, and, exactly when the list has more than 10 records, the
\* paragraph "... e mais <n - 10> itens" right after the table; the section
\* has no other element than one per entry of the result.  A list under any
\* other key (vpcs, aliases) and an empty list are not shown at all.
C15_SectionShowsFirstRecords ==
    \A r \in 1..Len(reports) :
        ~reports[r].raised =>
            \A i \in 1..Len(effects) :
                Succeeded(i) =>
                    LET elements == SectionElements(reports[r].body, i)
                        tables == TablesOf(elements)
                        value == effects[i].value
                        lists == ListsOf(value)
                    IN  \A m \in 1..Len(lists) :
                          LET n == Len(lists[m].v)
                              shown == IF n < RowLimit THEN n ELSE RowLimit
                              at == CHOOSE k \in 1..Len(elements) :
                                        elements[k].el = "table"
                          IN  IF lists[m].k \in DetailedKeys /\ n > 0
                              THEN /\ Len(tables) = 1
                                   /\ Len(tables[1].rows) = shown
                                   /\ \A k \in 1..shown :
                                         RowShows(tables[1].rows[k], lists[m].v[k])
                                   /\ Len(elements) = 3 + Len(value) +
                                          (IF n > RowLimit THEN 1 ELSE 0)
                                   /\ n > RowLimit =>
                                         elements[at + 1] =
                                             Paragraph(<<"... e mais ", n - RowLimit,
                                                         " itens">>, None)
                              ELSE /\ Len(tables) = 0
                                   /\ Len(elements) = 3 + Len(value) - 1

\* Witness of C15: a report was generated after a collector returned more
\* records than the table shows.
C15_Witness ==
    /\ Len(reports) >= 1
    /\ ~reports[1].raised
    /\ \E i \in 1..Len(effects) :
          /\ Succeeded(i)
          /\ \E m \in 1..Len(effects[i].value) :
                /\ effects[i].value[m].t = "list"
                /\ effects[i].value[m].k \in DetailedKeys
                /\ Len(effects[i].value[m].v) > RowLimit

\* C16: a collector invocation, whether it records a result, records an
\* error, raises or hangs, changes of data nothing but the entry under its
\* own key, and leaves session and account_id as they are; account_name is
\* changed by collect_account_summary alone; no other step of the program
\* writes data or account_name.  So the entry a collector wrote is what that
\* collector computed from its own provider answer, and it stays in data as
\* written, whatever the collectors after it do.
C16_CollectorWritesOnlyItsKey ==
    /\ [](\A i \in 1..Len(effects) :
              /\ effects[i] = Invoke(called[i], responses[i], account_id,
                                     effects[i].account_name)
              /\ effects[i].wrote =>
                    /\ effects[i].key = Slot(i)
                    /\ Slot(i) \in DOMAIN data
                    /\ data[Slot(i)] = effects[i].value)
    /\ [][LET i == Len(called')
          IN  /\ called' = called =>
                    (data' = data /\ account_name' = account_name)
              /\ called' # called =>
                    /\ DOMAIN data' \subseteq (DOMAIN data) \cup {Slot(i)}
                    /\ \A k \in DOMAIN data :
                          k # Slot(i) => (k \in DOMAIN data' /\ data'[k] = data[k])
                    /\ session' = session
                    /\ account_id' = account_id
                    /\ account_name' # account_name =>
                          called'[i] = "collect_account_summary"]_vars

\* Witness of C16: a collector recorded an error after another collector had
\* recorded a result, and both entries are in data.
C16_Witness ==
    \E i, j \in 1..Len(effects) :
        /\ i < j
        /\ Succeeded(i)
        /\ CaughtByCollector(j)
        /\ data[Slot(i)] = effects[i].value
        /\ data[Slot(j)] = effects[j].value

====
